---- MODULE Spec2Model ----
(***************************************************************************)
(* Model of remoulade/message.py: the frozen Message record, the           *)
(* process-wide encoder reference, and the operations of Message           *)
(* (construction, __or__, asdict, encode, decode, copy, build, cancel,     *)
(* set_progress, result).                                                  *)
(*                                                                         *)
(* Python objects are modelled with identity: a dict is an address into    *)
(* `heap`, a Message is an index into `msgs`.  A Message field that holds  *)
(* a dict holds its address, so aliasing between the caller's mapping and  *)
(* a message's field is visible.                                           *)
(***************************************************************************)
EXTENDS Integers, Sequences, FiniteSets, TLC

\* ------------------------------------------------------------------ bounds
\* the number of dicts callers create
MaxDicts == 2
\* the number of Message operations called
MaxOps == 2

\* ------------------------------------------------------------ input domains
ExplicitIds == {101}
\* attrs' NOTHING: the argument was not passed
NoArg == 0

\* the dict literals callers write: between them a key only in one, a key
\* only in the other and a key in both with different values
DictLiterals == {[k \in {} |-> 0], [k \in {"a"} |-> 1], [a |-> 2, b |-> 1]}

Encoders == {"JSONEncoder", "PickleEncoder"}
Brokers == {"broker1", "broker2"}
NoBroker == "None"

\* progress values in tenths: -1 is -0.1, 10 is 1.0, 11 is 1.1
Progresses == {-1, 0, 5, 10, 11}

\* what can go wrong in a collaborator during a delegated call
Faults == {"none", "no_backend", "unreachable"}

\* an ordered collection of positional arguments as the caller supplies it
ArgInputs ==
  { [kind |-> "list", items |-> <<1, 2>>],
    [kind |-> "tuple", items |-> <<2, 1>>],
    [kind |-> "tuple", items |-> <<>>] }

\* the seven attributes of Message, in declaration order
Fields ==
  {"queue_name", "actor_name", "args", "kwargs", "options",
   "message_id", "message_timestamp"}

VARIABLES
  heap,            \* the dict objects: address -> contents
  owner,           \* who allocated each dict: "caller", "copy" or "decode"
  msgs,            \* the Message objects: index -> the seven attributes
  origin,          \* per message: the message copy made it from (0: none)
                   \* and the attributes overridden in that copy
  root,            \* per message: the first message of its chain of copies
                   \* that override neither message_id nor message_timestamp
  draws,           \* number of generate_unique_id() draws so far
  pipes,           \* the pipeline objects constructed by __or__
  global_encoder,  \* the module-level encoder reference
  call,            \* the encode/decode call in flight and its position
  wire,            \* the bytes the last encode returned: <<>> or <<bytes>>
  global_broker,   \* the broker get_broker() resolves, or NoBroker
  cancel_reqs,     \* the requests received by cancel backends, in order
  state_reqs,      \* the requests received by state backends, in order
  n_cancel,        \* number of cancel() calls made
  n_progress,      \* number of set_progress() calls made
  ops,             \* number of Message operations called so far
  last             \* the last operation completed and what it returned

vars ==
  <<heap, owner, msgs, origin, root, draws, pipes, global_encoder, call, wire,
    global_broker, cancel_reqs, state_reqs, n_cancel, n_progress, ops, last>>

objs == <<heap, owner, msgs, origin, root, draws>>
wires == <<global_encoder, call, wire>>
backends == <<global_broker, cancel_reqs, state_reqs, n_cancel, n_progress>>

\* ------------------------------------------------------------------ values
EmptyDict == [k \in {} |-> 0]

\* dict.update(d, u): the keys of u win
Update(d, u) ==
  [k \in DOMAIN d \cup DOMAIN u |-> IF k \in DOMAIN u THEN u[k] ELSE d[k]]

\* a mapping restricted to the keys other than k (dict.pop)
Without(f, k) == [x \in DOMAIN f \ {k} |-> f[x]]

\* common.generate_unique_id, n-th draw
generate_unique_id(n) == n

\* a faulty tuple: args stored as given, not converted
tuple_kept(x) == x

\* converter=tuple on args
tuple(x) == [kind |-> "tuple", items |-> x.items]

\* the attrs-generated __init__ of Message; fresh and now are what the
\* factories of message_id and message_timestamp return if they are called
Message(q, a, args, kw, opt, id, ts, fresh, now) ==
  [queue_name |-> q,
   actor_name |-> a,
   args |-> tuple(args),
   kwargs |-> kw,
   options |-> opt,
   message_id |-> IF id = NoArg THEN fresh ELSE id,
   message_timestamp |-> IF ts = NoArg THEN now ELSE ts]

\* a faulty evolve: message_id is not carried over, the factory draws one
evolve_new_id(inst, changes) ==
  LET c == [f \in Fields |-> IF f \in DOMAIN changes THEN changes[f] ELSE inst[f]]
  IN Message(c.queue_name, c.actor_name, c.args, c.kwargs, c.options,
             IF "message_id" \in DOMAIN changes THEN changes.message_id ELSE NoArg,
             c.message_timestamp, generate_unique_id(draws + 1), NoArg)

\* attr.evolve(inst, **changes): __init__ called with every attribute, the
\* changed ones from changes and the others read from inst
evolve(inst, changes) ==
  LET c == [f \in Fields |-> IF f \in DOMAIN changes THEN changes[f] ELSE inst[f]]
  IN Message(c.queue_name, c.actor_name, c.args, c.kwargs, c.options,
             c.message_id, c.message_timestamp, NoArg, NoArg)

\* attr.asdict(self, recurse=False): the attributes, dicts by reference
asdict(self) == [f \in Fields |-> self[f]]

\* a reference to a message or to a pipeline
MsgRef(i) == [type |-> "message", at |-> i]
PipeRef(i) == [type |-> "pipeline", at |-> i]
NoRef == [type |-> "none", at |-> 0]

\* the result of the last operation; every action sets it
Last0 ==
  [op |-> "init", m |-> 0, a |-> 0, res |-> 0, ov |-> {}, enc |-> "none",
   seen |-> {}, raised |-> "none", calls |-> <<>>, reqs |-> <<>>, p |-> 0,
   data |-> <<>>, other |-> NoRef]

\* attribute equality of two messages (attrs __eq__: dicts compare by contents)
AttrEq(h, x, y) ==
  /\ x.queue_name = y.queue_name
  /\ x.actor_name = y.actor_name
  /\ x.args = y.args
  /\ h[x.kwargs] = h[y.kwargs]
  /\ h[x.options] = h[y.options]
  /\ x.message_id = y.message_id
  /\ x.message_timestamp = y.message_timestamp

\* ------------------------------------------------------------ collaborators
\* Encoder.encode: the bytes for a field mapping.  JSON has no tuple: args
\* goes on the wire as a list.  The bytes of one encoder are not those of
\* the other.
Encoder_encode(e, d, h) ==
  [enc |-> e,
   queue_name |-> d.queue_name,
   actor_name |-> d.actor_name,
   args |-> IF e = "JSONEncoder" THEN [kind |-> "list", items |-> d.args.items]
            ELSE d.args,
   kwargs |-> h[d.kwargs],
   options |-> h[d.options],
   message_id |-> d.message_id,
   message_timestamp |-> d.message_timestamp]

\* Encoder.decode succeeds on the bytes the same encoder produced
Encoder_decodes(e, data) == data.enc = e

\* Encoder.decode: the field mapping, with fresh dict values
Encoder_decode(e, data) == [f \in Fields |-> data[f]]

\* pipeline(children): keeps the children it is given
pipeline(children) == [children |-> children]

\* ------------------------------------------------------------ initial states
\* nothing constructed yet; the encoder is the module's default (line 33)
InitEmpty ==
  /\ heap = <<>>
  /\ owner = <<>>
  /\ msgs = <<>>
  /\ origin = <<>>
  /\ root = <<>>
  /\ draws = 0
  /\ pipes = <<>>
  /\ global_encoder = "JSONEncoder"
  /\ call = [pc |-> "idle", op |-> "none", m |-> 0, enc |-> "none",
             seen |-> {}, data |-> <<>>]
  /\ wire = <<>>
  /\ global_broker = NoBroker
  /\ cancel_reqs = <<>>
  /\ state_reqs = <<>>
  /\ n_cancel = 0
  /\ n_progress = 0
  /\ ops = 0
  /\ last = Last0

\* the state after a caller has made two dicts kw and opt and constructed
\* Message(queue_name=q, actor_name=a, args=args, kwargs=kw, options=opt)
\* from them, with broker b set
InitOne(kw, opt, q, a, args, b) ==
  /\ heap = <<kw, opt>>
  /\ owner = <<"caller", "caller">>
  /\ msgs = <<Message(q, a, args, 1, 2, NoArg, NoArg, generate_unique_id(1), 10)>>
  /\ origin = <<[m |-> 0, ov |-> {}]>>
  /\ root = <<1>>
  /\ draws = 1
  /\ pipes = <<>>
  /\ global_encoder = "JSONEncoder"
  /\ call = [pc |-> "idle", op |-> "none", m |-> 0, enc |-> "none",
             seen |-> {}, data |-> <<>>]
  /\ wire = <<>>
  /\ global_broker = b
  /\ cancel_reqs = <<>>
  /\ state_reqs = <<>>
  /\ n_cancel = 0
  /\ n_progress = 0
  /\ ops = 0
  /\ last = [Last0 EXCEPT !.op = "construct", !.res = 1]

\* ------------------------------------------------- construction and the heap
\* the caller creates a dict literal
NewDict(d) ==
  /\ Cardinality({a \in DOMAIN owner : owner[a] = "caller"}) < MaxDicts
  /\ heap' = Append(heap, d)
  /\ owner' = Append(owner, "caller")
  /\ last' = [Last0 EXCEPT !.op = "newdict", !.a = Len(heap) + 1]
  /\ UNCHANGED <<ops, msgs, origin, root, draws, pipes, wires, backends>>

\* someone holding a reference to the dict at address a runs d[k] = v
setitem(a, k, v) ==
  /\ a \in DOMAIN heap
  /\ heap' = [heap EXCEPT ![a] = Update(@, [x \in {k} |-> v])]
  /\ last' = [Last0 EXCEPT !.op = "setitem", !.a = a]
  /\ UNCHANGED <<ops, owner, msgs, origin, root, draws, pipes, wires, backends>>

\* Message(queue_name=q, ..., kwargs=kw, options=opt[, message_id=id]
\* [, message_timestamp=ts]) with kw and opt dicts the caller holds
construct(q, a, args, kw, opt, id, ts, now) ==
  /\ ops < MaxOps
  /\ ops' = ops + 1
  /\ kw \in DOMAIN heap /\ opt \in DOMAIN heap
  /\ msgs' = Append(msgs,
       Message(q, a, args, kw, opt, id, ts, generate_unique_id(draws + 1), now))
  /\ origin' = Append(origin, [m |-> 0, ov |-> {}])
  /\ root' = Append(root, Len(msgs) + 1)
  /\ draws' = IF id = NoArg THEN draws + 1 ELSE draws
  /\ last' = [Last0 EXCEPT !.op = "construct", !.res = Len(msgs) + 1,
                !.a = kw, !.p = opt]
  /\ UNCHANGED <<heap, owner, pipes, wires, backends>>

\* ---------------------------------------------------------------- copy, build
\* a faulty copy_options: the override replaces the options
copy_options_replaced(h, self, attributes) ==
  LET updated_options ==
        IF "options" \in DOMAIN attributes THEN h[attributes.options] ELSE EmptyDict
  IN [heap |-> Append(h, updated_options), options |-> Len(h) + 1]

\* a faulty copy_options: self.options is updated in place, without .copy()
copy_options_in_place(h, self, attributes) ==
  LET updated_options ==
        IF "options" \in DOMAIN attributes THEN h[attributes.options] ELSE EmptyDict
  IN [heap |-> [h EXCEPT ![self.options] = Update(@, updated_options)],
      options |-> self.options]

\* lines 102-104 of copy: the heap after them and the address of `options`
copy_options(h, self, attributes) ==
  LET updated_options ==
        IF "options" \in DOMAIN attributes THEN h[attributes.options] ELSE EmptyDict
      options == Len(h) + 1
      h1 == Append(h, h[self.options])
  IN [heap |-> [h1 EXCEPT ![options] = Update(@, updated_options)],
      options |-> options]

\* copy: the heap after it and the message it returns
copy_result(h, self, attributes) ==
  LET o == copy_options(h, self, attributes)
      rest == Without(attributes, "options")
  IN [heap |-> o.heap, msg |-> evolve(self, rest @@ [options |-> o.options])]

\* m.copy(**attributes) (op = "copy") or m.build(options) (op = "build")
copy_step(op, m, attributes) ==
  /\ m \in DOMAIN msgs
  /\ ops < MaxOps
  /\ ops' = ops + 1
  /\ LET r == copy_result(heap, msgs[m], attributes)
     IN /\ heap' = r.heap
        /\ owner' = owner \o [i \in 1..(Len(r.heap) - Len(heap)) |-> "copy"]
        /\ msgs' = Append(msgs, r.msg)
  /\ origin' = Append(origin, [m |-> m, ov |-> DOMAIN attributes])
  /\ root' = Append(root,
       IF {"message_id", "message_timestamp"} \cap DOMAIN attributes = {}
       THEN root[m] ELSE Len(msgs) + 1)
  /\ last' = [Last0 EXCEPT !.op = op, !.m = m, !.res = Len(msgs) + 1,
                !.ov = DOMAIN attributes,
                !.a = IF "options" \in DOMAIN attributes
                      THEN attributes.options ELSE 0]
  /\ UNCHANGED <<draws, pipes, wires, backends>>

copy(m, attributes) == copy_step("copy", m, attributes)

build(m, options) == copy_step("build", m, [options |-> options])

\* the keyword arguments given to copy: nothing, options alone, one of the
\* overrides in `one`, or options with one of the overrides in `both`
AttributesOver(one, both, A) ==
  {EmptyDict} \cup one \cup [options : A]
    \cup {x @@ y : x \in both, y \in [options : A]}

\* ------------------------------------------------------------ __or__, result
\* a faulty or_children: the operands in the other order
or_children_swapped(self, other) == <<other, self>>

\* what __or__ passes to pipeline()
or_children(self, other) == <<self, other>>

\* a | other, a the message at index m, other a message or a pipeline
or_(m, other) ==
  /\ m \in DOMAIN msgs
  /\ ops < MaxOps
  /\ ops' = ops + 1
  /\ pipes' = Append(pipes, pipeline(or_children(MsgRef(m), other)))
  /\ last' = [Last0 EXCEPT !.op = "or", !.m = m, !.other = other,
                !.res = Len(pipes) + 1]
  /\ UNCHANGED <<objs, wires, backends>>

\* the Result handle m.result constructs
result_of(self) == [message_id |-> self.message_id]

\* m.result
result(m) ==
  /\ m \in DOMAIN msgs
  /\ ops < MaxOps
  /\ ops' = ops + 1
  /\ last' = [Last0 EXCEPT !.op = "result", !.m = m,
                !.a = result_of(msgs[m]).message_id]
  /\ UNCHANGED <<objs, pipes, wires, backends>>

\* the operands other of a | other
Others == {MsgRef(i) : i \in DOMAIN msgs} \cup {PipeRef(i) : i \in DOMAIN pipes}

\* ------------------------------------------------------------- the encoder
Idle == [pc |-> "idle", op |-> "none", m |-> 0, enc |-> "none",
         seen |-> {}, data |-> <<>>]

\* get_encoder()
get_encoder == global_encoder

\* set_encoder(e): one assignment to the module global.  `seen` of a call in
\* flight collects every encoder active at some moment of the call.
set_encoder(e) ==
  /\ global_encoder' = e
  /\ call' = IF call.pc = "idle" THEN call
             ELSE [call EXCEPT !.seen = @ \cup {e}]
  /\ last' = [Last0 EXCEPT !.op = "set_encoder", !.enc = e]
  /\ UNCHANGED <<ops, objs, pipes, wire, backends>>

\* m.encode() is entered
encode_enter(m) ==
  /\ call.pc = "idle"
  /\ m \in DOMAIN msgs
  /\ ops < MaxOps
  /\ ops' = ops + 1
  /\ call' = [Idle EXCEPT !.pc = "entered", !.op = "encode", !.m = m,
                !.seen = {global_encoder}]
  /\ last' = [Last0 EXCEPT !.op = "enter"]
  /\ UNCHANGED <<objs, pipes, global_encoder, wire, backends>>

\* Message.decode(data) is entered, data the bytes on the wire
decode_enter ==
  /\ call.pc = "idle"
  /\ wire # <<>>
  /\ ops < MaxOps
  /\ ops' = ops + 1
  /\ call' = [Idle EXCEPT !.pc = "entered", !.op = "decode", !.data = wire,
                !.seen = {global_encoder}]
  /\ last' = [Last0 EXCEPT !.op = "enter"]
  /\ UNCHANGED <<objs, pipes, global_encoder, wire, backends>>

\* a faulty load_global: the encoder the module started with is used
load_default ==
  /\ call.pc = "entered"
  /\ call' = [call EXCEPT !.pc = "loaded", !.enc = "JSONEncoder"]
  /\ last' = [Last0 EXCEPT !.op = "load"]
  /\ UNCHANGED <<ops, objs, pipes, global_encoder, wire, backends>>

\* the one read of the global in `global_encoder.encode` (line 98) and in
\* `global_encoder.decode` (line 94)
load_global ==
  /\ call.pc = "entered"
  /\ call' = [call EXCEPT !.pc = "loaded", !.enc = global_encoder]
  /\ last' = [Last0 EXCEPT !.op = "load"]
  /\ UNCHANGED <<ops, objs, pipes, global_encoder, wire, backends>>

\* encode: asdict, then the loaded encoder's encode; the bytes are returned
encode_return ==
  /\ call.pc = "loaded" /\ call.op = "encode"
  /\ wire' = <<Encoder_encode(call.enc, asdict(msgs[call.m]), heap)>>
  /\ call' = Idle
  /\ last' = [Last0 EXCEPT !.op = "encode", !.m = call.m, !.enc = wire'[1].enc,
                !.seen = call.seen, !.data = wire']
  /\ UNCHANGED <<ops, objs, pipes, global_encoder, backends>>

\* decode, when the loaded encoder cannot read the bytes: its error reaches
\* the caller
decode_raise ==
  /\ call.pc = "loaded" /\ call.op = "decode"
  /\ ~Encoder_decodes(call.enc, call.data[1])
  /\ call' = Idle
  /\ last' = [Last0 EXCEPT !.op = "decode", !.enc = call.enc,
                !.seen = call.seen, !.data = call.data,
                !.raised = "DecodeError"]
  /\ UNCHANGED <<ops, objs, pipes, global_encoder, wire, backends>>

\* decode: the loaded encoder's decode, then cls(**fields)
decode_return ==
  /\ call.pc = "loaded" /\ call.op = "decode"
  /\ Encoder_decodes(call.enc, call.data[1])
  /\ LET f == Encoder_decode(call.enc, call.data[1])
         kw == Len(heap) + 1
         opt == Len(heap) + 2
     IN /\ heap' = heap \o <<f.kwargs, f.options>>
        /\ owner' = owner \o <<"decode", "decode">>
        /\ msgs' = Append(msgs,
             Message(f.queue_name, f.actor_name, f.args, kw, opt, f.message_id,
                     f.message_timestamp, generate_unique_id(draws + 1), 10))
  /\ origin' = Append(origin, [m |-> 0, ov |-> {}])
  /\ root' = Append(root, Len(msgs) + 1)
  /\ call' = Idle
  /\ last' = [Last0 EXCEPT !.op = "decode", !.res = Len(msgs) + 1,
                !.enc = call.enc, !.seen = call.seen, !.data = call.data]
  /\ UNCHANGED <<ops, draws, pipes, global_encoder, wire, backends>>

\* ------------------------------------------------------ cancel, set_progress
\* broker.set_broker(b)
set_broker(b) ==
  /\ global_broker' = b
  /\ last' = [Last0 EXCEPT !.op = "set_broker"]
  /\ UNCHANGED <<ops, objs, pipes, wires, cancel_reqs, state_reqs, n_cancel, n_progress>>

\* a faulty cancel_run: a failed request is sent again
cancel_run_retry(self, broker, fault) ==
  LET req == [broker |-> broker, batch |-> <<self.message_id>>]
  IN IF broker = NoBroker
     THEN [calls |-> <<"get_broker">>, reqs |-> <<>>, raised |-> "BrokerError"]
     ELSE IF fault = "no_backend"
     THEN [calls |-> <<"get_broker", "get_cancel_backend">>, reqs |-> <<>>,
           raised |-> "NoCancelBackend"]
     ELSE IF fault = "unreachable"
     THEN [calls |-> <<"get_broker", "get_cancel_backend", "cancel", "cancel">>,
           reqs |-> <<req, req>>, raised |-> "BackendError"]
     ELSE [calls |-> <<"get_broker", "get_cancel_backend", "cancel">>,
           reqs |-> <<req>>, raised |-> "none"]

\* the body of cancel with broker the global broker and fault what goes wrong
\* in a collaborator: the collaborators called, the requests the backend
\* received, and the error raised
cancel_run(self, broker, fault) ==
  IF broker = NoBroker
  THEN [calls |-> <<"get_broker">>, reqs |-> <<>>, raised |-> "BrokerError"]
  ELSE IF fault = "no_backend"
  THEN [calls |-> <<"get_broker", "get_cancel_backend">>, reqs |-> <<>>,
        raised |-> "NoCancelBackend"]
  ELSE [calls |-> <<"get_broker", "get_cancel_backend", "cancel">>,
        reqs |-> <<[broker |-> broker, batch |-> <<self.message_id>>]>>,
        raised |-> IF fault = "unreachable" THEN "BackendError" ELSE "none"]

\* m.cancel()
cancel(m, fault) ==
  /\ m \in DOMAIN msgs
  /\ ops < MaxOps
  /\ ops' = ops + 1
  /\ n_cancel' = n_cancel + 1
  /\ LET r == cancel_run(msgs[m], global_broker, fault)
     IN /\ cancel_reqs' = cancel_reqs \o r.reqs
        /\ last' = [Last0 EXCEPT !.op = "cancel", !.m = m, !.calls = r.calls,
                      !.reqs = r.reqs, !.raised = r.raised]
  /\ UNCHANGED <<objs, pipes, wires, global_broker, state_reqs, n_progress>>

\* a faulty valid_progress: the lower bound is not tested
valid_progress_no_lower(progress) == progress <= 10

\* the test of line 124, progress in tenths
valid_progress(progress) == 0 <= progress /\ progress <= 10

\* the body of set_progress
set_progress_run(self, progress, broker, fault) ==
  IF ~valid_progress(progress)
  THEN [calls |-> <<>>, reqs |-> <<>>, raised |-> "InvalidProgress"]
  ELSE IF broker = NoBroker
  THEN [calls |-> <<"get_broker">>, reqs |-> <<>>, raised |-> "BrokerError"]
  ELSE IF fault = "no_backend"
  THEN [calls |-> <<"get_broker", "get_state_backend">>, reqs |-> <<>>,
        raised |-> "NoStateBackend"]
  ELSE [calls |-> <<"get_broker", "get_state_backend", "set_state">>,
        reqs |-> <<[broker |-> broker, message_id |-> self.message_id,
                    progress |-> progress]>>,
        raised |-> IF fault = "unreachable" THEN "BackendError" ELSE "none"]

\* m.set_progress(progress)
set_progress(m, progress, fault) ==
  /\ m \in DOMAIN msgs
  /\ ops < MaxOps
  /\ ops' = ops + 1
  /\ n_progress' = n_progress + 1
  /\ LET r == set_progress_run(msgs[m], progress, global_broker, fault)
     IN /\ state_reqs' = state_reqs \o r.reqs
        /\ last' = [Last0 EXCEPT !.op = "set_progress", !.m = m, !.p = progress,
                      !.calls = r.calls, !.reqs = r.reqs, !.raised = r.raised]
  /\ UNCHANGED <<objs, pipes, wires, global_broker, cancel_reqs, n_cancel>>

\* ------------------------------------------------------------ specifications
Args0 == [kind |-> "list", items |-> <<1, 2>>]

\* the overrides of one attribute other than options, widely and narrowly
OneOf(A) ==
  [queue_name : {"high"}] \cup [actor_name : {"mul"}]
    \cup [args : {[kind |-> "list", items |-> <<2, 1>>]}]
    \cup [kwargs : A] \cup [message_id : ExplicitIds]
    \cup [message_timestamp : {20}]
OneOfFew(A) == [actor_name : {"mul"}] \cup [kwargs : A] \cup [message_id : ExplicitIds]
WithOptions == [actor_name : {"mul"}] \cup [message_id : ExplicitIds]

\* The operations of a message (copy, build, |, result, encode, cancel,
\* set_progress) on one message and the messages derived from it: no caller
\* writes to a dict, no one swaps the encoder or the broker.
Init ==
  \E opt \in {EmptyDict, [k \in {"a"} |-> 1]}, b \in {NoBroker, "broker1"} :
    InitOne([a |-> 2, b |-> 1], opt, "default", "add", Args0, b)

Next ==
  \/ \E m \in DOMAIN msgs,
        attributes \in AttributesOver(OneOfFew(DOMAIN heap), WithOptions, DOMAIN heap) :
       copy(m, attributes)
  \/ \E m \in DOMAIN msgs, o \in DOMAIN heap : build(m, o)
  \/ \E m \in DOMAIN msgs, other \in Others : or_(m, other)
  \/ \E m \in DOMAIN msgs : result(m)
  \/ \E m \in DOMAIN msgs : encode_enter(m)
  \/ load_global
  \/ encode_return
  \/ \E m \in DOMAIN msgs, fault \in Faults : cancel(m, fault)
  \/ \E m \in DOMAIN msgs, progress \in Progresses, fault \in Faults :
       set_progress(m, progress, fault)

Spec == Init /\ [][Next]_vars

\* copy and build alone, with every override, from every pair of literals
InitCopy ==
  \E kw \in DictLiterals, opt \in DictLiterals :
    InitOne(kw, opt, "default", "add", Args0, NoBroker)

NextCopy ==
  \/ \E m \in DOMAIN msgs,
        attributes \in AttributesOver(OneOf(DOMAIN heap), WithOptions, DOMAIN heap) :
       copy(m, attributes)
  \/ \E m \in DOMAIN msgs, o \in DOMAIN heap : build(m, o)

SpecCopy == InitCopy /\ [][NextCopy]_vars

\* callers that make dicts, construct and copy messages, and later write to
\* the dicts they hold
NextAlias ==
  \/ \E d \in DictLiterals : NewDict(d)
  \/ \E a \in DOMAIN heap : setitem(a, "b", 2)
  \/ \E kw \in DOMAIN heap, opt \in DOMAIN heap, id \in ExplicitIds \cup {NoArg} :
       construct("default", "add", Args0, kw, opt, id, NoArg, 10)
  \/ \E m \in DOMAIN msgs,
        attributes \in AttributesOver(OneOfFew(DOMAIN heap), WithOptions, DOMAIN heap) :
       copy(m, attributes)

SpecAlias == InitEmpty /\ [][NextAlias]_vars

\* one thread encoding and decoding while another may swap the encoder
InitWire ==
  \E kw \in DictLiterals, opt \in DictLiterals, args \in ArgInputs :
    InitOne(kw, opt, "default", "add", args, NoBroker)

NextWire ==
  \/ \E e \in Encoders : set_encoder(e)
  \/ \E m \in DOMAIN msgs : encode_enter(m)
  \/ decode_enter
  \/ load_global
  \/ encode_return
  \/ decode_raise
  \/ decode_return

SpecWire == InitWire /\ [][NextWire]_vars

\* the delegated calls, with the broker set, replaced and unset
InitBackend ==
  \E kw \in DictLiterals : InitOne(kw, EmptyDict, "default", "add", Args0, NoBroker)

NextBackend ==
  \/ \E b \in Brokers \cup {NoBroker} : set_broker(b)
  \/ \E id \in ExplicitIds : construct("default", "mul", Args0, 1, 2, id, NoArg, 20)
  \/ \E m \in DOMAIN msgs, fault \in Faults : cancel(m, fault)
  \/ \E m \in DOMAIN msgs, progress \in Progresses, fault \in Faults :
       set_progress(m, progress, fault)

SpecBackend == InitBackend /\ [][NextBackend]_vars

\* ------------------------------------------------------------------ claims
\* C1 as stated: set_progress(p) sends set_state exactly when 0 <= p <= 1,
\* a rejected call has raised InvalidProgress before calling any
\* collaborator, and every progress recorded by a backend is in [0, 1].
C1_RequestIffInRange ==
  /\ last.op = "set_progress" =>
       /\ (Len(last.reqs) = 1) <=> (0 <= last.p /\ last.p <= 10)
       /\ ~(0 <= last.p /\ last.p <= 10) =>
            (last.raised = "InvalidProgress" /\ last.calls = <<>>)
  /\ \A i \in DOMAIN state_reqs :
       0 <= state_reqs[i].progress /\ state_reqs[i].progress <= 10

\* C1 amended: set_progress(p) sends set_state (once, for this message's id
\* and p) exactly when 0 <= p <= 1 and the broker and its state backend were
\* resolved without error; a p outside [0, 1] raises InvalidProgress before
\* any collaborator is called; every progress recorded by a backend is in
\* [0, 1].
C1_RequestIffInRangeAndResolved ==
  /\ last.op = "set_progress" =>
       /\ Len(last.reqs) <= 1
       /\ (Len(last.reqs) = 1) <=>
            /\ 0 <= last.p /\ last.p <= 10
            /\ last.raised \notin {"BrokerError", "NoStateBackend"}
       /\ Len(last.reqs) = 1 =>
            /\ last.reqs[1].message_id = msgs[last.m].message_id
            /\ last.reqs[1].progress = last.p
            /\ state_reqs[Len(state_reqs)] = last.reqs[1]
       /\ ~(0 <= last.p /\ last.p <= 10) =>
            (last.raised = "InvalidProgress" /\ last.calls = <<>>)
  /\ \A i \in DOMAIN state_reqs :
       0 <= state_reqs[i].progress /\ state_reqs[i].progress <= 10

\* the boundary 1.0 was recorded, then 1.1 was rejected
C1_Witness ==
  /\ last.op = "set_progress" /\ last.p = 11 /\ last.raised = "InvalidProgress"
  /\ Len(state_reqs) = 1 /\ state_reqs[1].progress = 10

\* C2: a message decoded from the bytes of m, by the encoder that encoded
\* them, has the seven attributes of m: args the same tuple, the same
\* message_id and message_timestamp.
C2_RoundTrip ==
  (last.op = "decode" /\ last.raised = "none") =>
    \A i \in DOMAIN msgs \ {last.res} :
      Encoder_encode(last.enc, asdict(msgs[i]), heap) = last.data[1] =>
        /\ AttrEq(heap, msgs[last.res], msgs[i])
        /\ msgs[last.res].args.kind = "tuple"
        /\ msgs[last.res].args.items = msgs[i].args.items
        /\ msgs[last.res].message_id = msgs[i].message_id
        /\ msgs[last.res].message_timestamp = msgs[i].message_timestamp

\* a message with two positional arguments and non-empty kwargs came back
C2_Witness ==
  /\ last.op = "decode" /\ last.raised = "none" /\ last.res = 2
  /\ Encoder_encode(last.enc, asdict(msgs[1]), heap) = last.data[1]
  /\ Len(msgs[1].args.items) = 2
  /\ heap[msgs[1].kwargs] # EmptyDict

\* C3 as stated: a write to a dict the caller made changes the kwargs and
\* options of no message, and a write to the dict a message's kwargs or
\* options refers to changes no dict the caller made.
C3_StoredByValue ==
  [][last'.op = "setitem" =>
       /\ owner[last'.a] = "caller" =>
            \A i \in DOMAIN msgs :
              /\ heap'[msgs[i].kwargs] = heap[msgs[i].kwargs]
              /\ heap'[msgs[i].options] = heap[msgs[i].options]
       /\ (\E i \in DOMAIN msgs : last'.a \in {msgs[i].kwargs, msgs[i].options}) =>
            \A a \in DOMAIN heap : owner[a] = "caller" => heap'[a] = heap[a]]_vars

\* C4: the options of m.copy(options=o) and of m.build(o) have the keys of
\* m.options and of o, o's value at each key of o and m's value at the
\* others; without an options override they equal m.options.
C4_OptionsMerged ==
  last.op \in {"copy", "build"} =>
    LET base == heap[msgs[last.m].options]
        o == IF "options" \in last.ov THEN heap[last.a] ELSE EmptyDict
        r == heap[msgs[last.res].options]
    IN /\ DOMAIN r = DOMAIN base \cup DOMAIN o
       /\ \A k \in DOMAIN o : r[k] = o[k]
       /\ \A k \in DOMAIN base \ DOMAIN o : r[k] = base[k]
       /\ "options" \notin last.ov => r = base
       /\ last.op = "build" => last.ov = {"options"}

\* an override that shares a key with the base at another value and lacks
\* a key of the base
C4_Witness ==
  /\ last.op = "copy" /\ "options" \in last.ov
  /\ LET base == heap[msgs[last.m].options]
         o == heap[last.a]
     IN /\ \E k \in DOMAIN base \cap DOMAIN o : base[k] # o[k]
        /\ DOMAIN base \ DOMAIN o # {}

\* C5: a message reached by copies and builds that override neither
\* message_id nor message_timestamp has the message_id and the
\* message_timestamp of the message the chain started from.
C5_IdentityKept ==
  \A i \in DOMAIN msgs :
    /\ msgs[i].message_id = msgs[root[i]].message_id
    /\ msgs[i].message_timestamp = msgs[root[i]].message_timestamp

\* a copy of a copy, the second overriding another attribute
C5_Witness ==
  /\ Len(msgs) = 3 /\ origin[3].m = 2 /\ origin[2].m = 1 /\ root[3] = 1
  /\ "actor_name" \in origin[3].ov

\* C6: no operation of a message changes a message or a dict that exists:
\* every message keeps its seven attributes and the contents of its kwargs
\* and options, every dict (an override given to copy among them) keeps its
\* contents, and copy and build return a new message.
C6_NothingMutated ==
  [][/\ \A i \in DOMAIN msgs :
          /\ i \in DOMAIN msgs' /\ msgs'[i] = msgs[i]
          /\ heap'[msgs[i].kwargs] = heap[msgs[i].kwargs]
          /\ heap'[msgs[i].options] = heap[msgs[i].options]
     /\ \A a \in DOMAIN heap : a \in DOMAIN heap' /\ heap'[a] = heap[a]
     /\ last'.op \in {"copy", "build"} =>
          (last'.res \notin DOMAIN msgs /\ last'.res \in DOMAIN msgs')]_vars

\* a second operation returned a message whose options differ from its
\* source's
C6_Witness ==
  /\ ops = 2 /\ last.op \in {"copy", "build"}
  /\ heap[msgs[last.res].options] # heap[msgs[last.m].options]

\* C7: an encode or decode call uses one encoder, and it is one that was the
\* global encoder at some moment of the call: the one set before the call
\* when no set_encoder ran during it.  A message has the seven attributes
\* and no encoder.
C7_ActiveEncoderUsed ==
  /\ last.op \in {"encode", "decode"} =>
       /\ last.enc \in last.seen
       /\ last.op = "encode" => last.data[1].enc = last.enc
  /\ \A i \in DOMAIN msgs : DOMAIN msgs[i] = Fields

\* an encode that ran wholly after set_encoder(PickleEncoder)
C7_Witness ==
  /\ last.op = "encode" /\ last.enc = "PickleEncoder"
  /\ last.seen = {"PickleEncoder"}

\* C8: a cancel call sends at most one request; it sends one, the batch of
\* this message's id alone, to the broker resolved at the call, unless the
\* broker or its cancel backend was not resolved; the collaborator's error
\* is what the caller gets; requests never outnumber calls.
C8_OneCancelRequest ==
  /\ Len(cancel_reqs) <= n_cancel
  /\ \A i \in DOMAIN cancel_reqs : Len(cancel_reqs[i].batch) = 1
  /\ last.op = "cancel" =>
       /\ Len(last.reqs) <= 1
       /\ (Len(last.reqs) = 1) <=> last.raised \notin {"BrokerError", "NoCancelBackend"}
       /\ global_broker = NoBroker => last.raised = "BrokerError"
       /\ Len(last.reqs) = 1 =>
            /\ last.reqs[1] = [broker |-> global_broker,
                               batch |-> <<msgs[last.m].message_id>>]
            /\ cancel_reqs[Len(cancel_reqs)] = last.reqs[1]
       /\ last.calls \in {<<"get_broker">>, <<"get_broker", "get_cancel_backend">>,
                          <<"get_broker", "get_cancel_backend", "cancel">>}

\* two cancel calls: one stopped at the broker, one whose request failed
C8_Witness ==
  /\ n_cancel = 2 /\ Len(cancel_reqs) = 1
  /\ last.op = "cancel" /\ last.raised = "BackendError"

\* C9: a | b adds one pipeline, constructed from <<a, b>>, and changes no
\* message and no dict.
C9_PipelineOfPair ==
  [][last'.op = "or" =>
       /\ pipes' = Append(pipes, [children |-> <<MsgRef(last'.m), last'.other>>])
       /\ msgs' = msgs
       /\ heap' = heap]_vars

\* a copy on the left, the message it was copied from on the right
C9_Witness ==
  /\ last.op = "or" /\ last.m = 2 /\ last.other = MsgRef(1)
  /\ pipes[1].children[1] # pipes[1].children[2]

\* C10 as stated: after c = m.copy(...) without a kwargs override, a write
\* to the dict c.kwargs refers to does not change m.kwargs, and a write to
\* the dict m.kwargs refers to does not change c.kwargs.
C10_CopyKwargsIndependent ==
  [][last'.op = "setitem" =>
       \A c \in DOMAIN msgs :
         (origin[c].m # 0 /\ "kwargs" \notin origin[c].ov) =>
           LET m == origin[c].m
           IN /\ last'.a = msgs[c].kwargs =>
                   heap'[msgs[m].kwargs] = heap[msgs[m].kwargs]
              /\ last'.a = msgs[m].kwargs =>
                   heap'[msgs[c].kwargs] = heap[msgs[c].kwargs]]_vars

====
